---- MODULE Spec2Model ----
(***************************************************************************)
(* A model of the MCQ generator of src/main.py: three content loaders      *)
(* (PDF, text, URL) that normalize and fingerprint extracted text, the     *)
(* adapter that forwards the content to the external question engine, the  *)
(* formatter, and the Streamlit script that ties them together.            *)
(*                                                                         *)
(* A Python str is a sequence of one-character strings; None is an empty   *)
(* sequence where a value is optional.                                     *)
(***************************************************************************)
EXTENDS Integers, Sequences, FiniteSets, TLC

VARIABLES
    pc,          \* position of the current interaction
    ui,          \* the widget values of the current script run
    call,        \* the arguments generate_mcqs_from_data was entered with
    trace,       \* the external calls made by the current interaction, in order
    doc,         \* <<>> or <<the record load_data returned>>
    engineLog,   \* the requests the engine received, each with what it answered
    mcqs,        \* <<>> or <<the object generate_mcq returned>>
    displayed,   \* what st.text has shown in the current run
    fault,       \* "" or the exception that ended the interaction
    prevLoad,    \* <<>> or <<the loader and record of the previous load>>
    nLoader,     \* normalizer runs: whose clean_string is applied
    nText,       \* normalizer runs: the input string
    nHist,       \* normalizer runs: the result of each successive application
    fQuestions,  \* formatter runs: the input questions
    fOut         \* formatter runs: <<>> or <<the lines format_mcqs produced>>

vars == <<pc, ui, call, trace, doc, engineLog, mcqs, displayed, fault, prevLoad,
          nLoader, nText, nHist, fQuestions, fOut>>

mainVars == <<pc, ui, call, trace, doc, engineLog, mcqs, displayed, fault, prevLoad>>
normVars == <<nLoader, nText, nHist>>
fmtVars == <<fQuestions, fOut>>

----------------------------------------------------------------------------
(* Bounds of the model.                                                    *)

MaxLen == 5
MaxPasses == 2
MaxQuestions == 2
MaxOptions == 2

----------------------------------------------------------------------------
(* Strings.                                                                *)

\* The characters Python's \s and str.strip() treat as whitespace (those a
\* TLA+ string can hold).
Whitespace == {" ", "\t", "\n", "\r", "\f"}

IsSpace(c) == c \in Whitespace

\* The characters the bounded inputs are drawn from.
Alphabet == {"a", "b", " ", "\n"}

SeqsUpTo(S, n) == UNION {[1..k -> S] : k \in 0..n}

Strings == SeqsUpTo(Alphabet, MaxLen)

Example == <<"a", " ", " ", " ", "b", "\n", "\t", "c">>

RECURSIVE DropSpaces(_)
DropSpaces(text) ==
    IF text # <<>> /\ IsSpace(Head(text)) THEN DropSpaces(Tail(text)) ELSE text

\* re.sub(r'\s\s', ' ', text): every pair of whitespace characters becomes a space.
RECURSIVE ReSubSpacePairs(_)
ReSubSpacePairs(text) ==
    IF text = <<>> THEN <<>>
    ELSE IF Len(text) >= 2 /\ IsSpace(text[1]) /\ IsSpace(text[2])
         THEN <<" ">> \o ReSubSpacePairs(Tail(Tail(text)))
         ELSE <<Head(text)>> \o ReSubSpacePairs(Tail(text))

\* re.sub(r'\s', ' ', text): every whitespace character becomes a space.
ReSubEachSpace(text) ==
    [i \in DOMAIN text |-> IF IsSpace(text[i]) THEN " " ELSE text[i]]

\* re.sub(r'\s+', ' ', text): scanning from the left, every maximal run of
\* whitespace characters is replaced by one space.
RECURSIVE ReSubSpaces(_)
ReSubSpaces(text) ==
    IF text = <<>> THEN <<>>
    ELSE IF IsSpace(Head(text))
         THEN <<" ">> \o ReSubSpaces(DropSpaces(Tail(text)))
         ELSE <<Head(text)>> \o ReSubSpaces(Tail(text))

RECURSIVE DropSpacesRight(_)
DropSpacesRight(text) ==
    IF text # <<>> /\ IsSpace(text[Len(text)])
    THEN DropSpacesRight(SubSeq(text, 1, Len(text) - 1))
    ELSE text

\* text.strip(): leading and trailing whitespace removed.
Strip(text) == DropSpacesRight(DropSpaces(text))

Pdf_clean_string(text) == Strip(ReSubSpaces(text))

Text_clean_string(text) == Strip(ReSubSpaces(text))

Url_clean_string(text) == Strip(ReSubSpaces(text))

Loaders == {"PdfFileLoader", "TextFileLoader", "UrlLoader"}

clean_string(loader, text) ==
    CASE loader = "PdfFileLoader" -> Pdf_clean_string(text)
      [] loader = "TextFileLoader" -> Text_clean_string(text)
      [] loader = "UrlLoader" -> Url_clean_string(text)

----------------------------------------------------------------------------
(* The normalizer on its own: every bounded string, each loader's copy,    *)
(* applied MaxPasses times in succession.                                  *)

InitMainIdle ==
    /\ pc = "idle"
    /\ ui = [active |-> FALSE, source_type |-> "", num_mcqs |-> 0,
             difficulty_level |-> "", pressed |-> FALSE,
             source |-> [supplied |-> FALSE, ok |-> FALSE, pages |-> <<>>, text |-> <<>>]]
    /\ call = <<>>
    /\ trace = <<>>
    /\ doc = <<>>
    /\ engineLog = <<>>
    /\ mcqs = <<>>
    /\ displayed = <<>>
    /\ fault = ""
    /\ prevLoad = <<>>

InitNormIdle ==
    /\ nLoader = "TextFileLoader"
    /\ nText = <<>>
    /\ nHist = <<>>

InitFmtIdle ==
    /\ fQuestions = <<>>
    /\ fOut = <<>>

InitNormalizer ==
    /\ InitMainIdle
    /\ InitFmtIdle
    /\ nLoader \in Loaders
    /\ nText \in Strings \cup {Example}
    /\ nHist = <<>>

Normalize ==
    /\ Len(nHist) < MaxPasses
    /\ nHist' = Append(nHist, clean_string(nLoader,
                    IF nHist = <<>> THEN nText ELSE nHist[Len(nHist)]))
    /\ UNCHANGED <<nLoader, nText, mainVars, fmtVars>>

NextNormalizer == Normalize

SpecNormalizer == InitNormalizer /\ [][NextNormalizer]_vars


\* C4: applying a loader's clean_string to its own result changes nothing:
\* every application after the first returns what the first returned, for each
\* of the three loaders' copies.
C4_Idempotent ==
    \A i \in 2..Len(nHist) : nHist[i] = nHist[1]

\* The normalizer has been applied twice to a string that it changes.
C4_Witness ==
    /\ Len(nHist) >= 2
    /\ nHist[1] # nText
    /\ nHist[2] = nHist[1]

NonSpaceAt(s) == {i \in DOMAIN s : ~IsSpace(s[i])}

Kth(S, k) == CHOOSE i \in S : Cardinality({j \in S : j < i}) = k - 1

\* out is s with its non-whitespace characters kept in order, one space
\* wherever s had whitespace between two of them, and nothing else.
IsNormalFormOf(out, s) ==
    LET P == NonSpaceAt(s)
        Q == NonSpaceAt(out)
        n == Cardinality(P)
    IN  /\ Cardinality(Q) = n
        /\ Len(out) = IF n = 0 THEN 0 ELSE Kth(Q, n)
        /\ n > 0 => Kth(Q, 1) = 1
        /\ \A k \in 1..n : out[Kth(Q, k)] = s[Kth(P, k)]
        /\ \A k \in 1..(n - 1) :
              IF Kth(P, k + 1) - Kth(P, k) > 1
              THEN /\ Kth(Q, k + 1) = Kth(Q, k) + 2
                   /\ out[Kth(Q, k) + 1] = " "
              ELSE Kth(Q, k + 1) = Kth(Q, k) + 1

\* C5: for every input (the empty and the whitespace-only ones included) the
\* normalizer returns the input with each maximal whitespace run replaced by
\* one space, no leading or trailing whitespace, and the other characters in
\* their order; "a   b\n\tc" becomes "a b c".
C5_Normalized ==
    nHist # <<>> =>
        /\ IsNormalFormOf(nHist[1], nText)
        /\ nText = Example => nHist[1] = <<"a", " ", "b", " ", "c">>
        /\ NonSpaceAt(nText) = {} => nHist[1] = <<>>

\* The example string has been normalized.
C5_Witness ==
    /\ nText = Example
    /\ nHist # <<>>
    /\ nHist[1] = <<"a", " ", "b", " ", "c">>

----------------------------------------------------------------------------
(* Fingerprinting and the loaders.                                         *)

\* ord(c) of the characters the inputs are made of.
Ord(c) ==
    CASE c = "\t" -> 9
      [] c = "\n" -> 10
      [] c = "\f" -> 12
      [] c = "\r" -> 13
      [] c = " " -> 32
      [] c = "a" -> 97
      [] c = "b" -> 98
      [] c = "c" -> 99

\* text.encode(): one byte per (ASCII) character.
Utf8Encode(text) == [i \in DOMAIN text |-> Ord(text[i])]

\* hashlib.sha256(bytes).hexdigest(), modelled as an injective function of
\* the bytes hashed.
Sha256Hex(bytes) == [alg |-> "sha256", of |-> bytes]

\* " ".join(parts)
RECURSIVE JoinSpace(_)
JoinSpace(parts) ==
    IF parts = <<>> THEN <<>>
    ELSE IF Len(parts) = 1 THEN parts[1]
    ELSE parts[1] \o <<" ">> \o JoinSpace(Tail(parts))

\* "".join(parts)
RECURSIVE Concat(_)
Concat(parts) ==
    IF parts = <<>> THEN <<>> ELSE Head(parts) \o Concat(Tail(parts))

\* A source as the loaders see it: whether the bytes parse (a valid PDF, valid
\* UTF-8, a server that answers), the page texts get_text gives for a PDF, and
\* the text a text file decodes to or a fetched page's get_text.
Source(supplied, ok, pages, text) ==
    [supplied |-> supplied, ok |-> ok, pages |-> pages, text |-> text]

NoSource == Source(FALSE, FALSE, <<>>, <<>>)

\* The identifier is the digest of the unjoined page texts.
Pdf_load_data_HashUnjoined(file) ==
    LET all_content == [i \in DOMAIN file.pages |-> Pdf_clean_string(file.pages[i])]
    IN  [doc_id |-> Sha256Hex(Utf8Encode(Concat(all_content))),
         content |-> JoinSpace(all_content)]

Pdf_load_data(file) ==
    LET all_content == [i \in DOMAIN file.pages |-> Pdf_clean_string(file.pages[i])]
    IN  [doc_id |-> Sha256Hex(Utf8Encode(JoinSpace(all_content))),
         content |-> JoinSpace(all_content)]

Text_load_data(file) ==
    LET content == Text_clean_string(file.text)
    IN  [doc_id |-> Sha256Hex(Utf8Encode(content)), content |-> content]

Url_load_data(url) ==
    LET content == Url_clean_string(url.text)
    IN  [doc_id |-> Sha256Hex(Utf8Encode(content)), content |-> content]

load_data(loader, source) ==
    CASE loader = "PdfFileLoader" -> Pdf_load_data(source)
      [] loader = "TextFileLoader" -> Text_load_data(source)
      [] loader = "UrlLoader" -> Url_load_data(source)

\* What load_data raises on a source that does not parse: fitz.open on bytes
\* that are no PDF, decode('utf-8') on invalid bytes, requests.get on a
\* network failure.
LoadError(loader) ==
    CASE loader = "PdfFileLoader" -> "FileDataError"
      [] loader = "TextFileLoader" -> "UnicodeDecodeError"
      [] loader = "UrlLoader" -> "ConnectionError"

LoaderErrors == {LoadError(l) : l \in Loaders}

LoadEvent(loader) ==
    CASE loader = "PdfFileLoader" -> "PdfFileLoader.load_data"
      [] loader = "TextFileLoader" -> "TextFileLoader.load_data"
      [] loader = "UrlLoader" -> "UrlLoader.load_data"

LoadEvents == {LoadEvent(l) : l \in Loaders}

\* The sources the runs are given.
PdfUploads ==
    { Source(TRUE, FALSE, <<>>, <<>>),
      Source(TRUE, TRUE, << <<"a", "\n">>, <<"b", "\n">> >>, <<>>),
      Source(TRUE, TRUE, << <<"a", "\n">>, <<>>, <<"b", "\n">> >>, <<>>) }

TextUploads ==
    { Source(TRUE, FALSE, <<>>, <<>>),
      Source(TRUE, TRUE, <<>>, <<"a", " ", "\n", "b">>),
      Source(TRUE, TRUE, <<>>, <<"b", "\n">>) }

Urls ==
    { Source(TRUE, FALSE, <<>>, <<>>),
      Source(TRUE, TRUE, <<>>, <<"\t", "a", " ", "b">>) }

SourceTypes == {"pdf", "text", "url"}

SourcesOf(source_type) ==
    CASE source_type = "pdf" -> PdfUploads
      [] source_type = "url" -> Urls
      [] OTHER -> TextUploads

----------------------------------------------------------------------------
(* The generation adapter and the engine.                                  *)

DefaultTemplate ==
    <<"Generate ", "{num}", " multiple-choice question (MCQ) based on the given topic and level. ",
      "Provide the question, four answer options, and the correct answer. ",
      "Topic: ", "{topic}", " Difficulty Level: ", "{difficulty_level}">>

CustomTemplate == <<"Write ", "{num}", " questions about ", "{topic}">>

\* The caller's template is ignored.
generate_mcq_request_DefaultOnly(topic, num, difficulty_level, prompt_template) ==
    [topic |-> topic, num |-> num, difficulty_level |-> difficulty_level,
     prompt_template |-> DefaultTemplate]

\* The keyword arguments generate_mcq hands to qna_engine.generate_mcq;
\* prompt_template is <<>> for None, else <<the template>>.
generate_mcq_request(topic, num, difficulty_level, prompt_template) ==
    [topic |-> topic, num |-> num, difficulty_level |-> difficulty_level,
     prompt_template |-> IF prompt_template = <<>> THEN DefaultTemplate
                         ELSE prompt_template[1]]

MCQ(question, options, correct_answer) ==
    [question |-> question, options |-> options, correct_answer |-> correct_answer]

\* What the engine may answer: an exception, or an object with questions.
EngineResults ==
    { [questions |-> << MCQ("Q1", <<"w", "x", "y", "z">>, "x") >>],
      [questions |-> << MCQ("Q1", <<"w", "x", "y", "z">>, "x"),
                        MCQ("Q2", <<"x", "y", "w", "z">>, "w") >>] }

EngineOutcomes ==
    {[ok |-> FALSE, result |-> [questions |-> <<>>]]}
        \cup {[ok |-> TRUE, result |-> r] : r \in EngineResults}

----------------------------------------------------------------------------
(* format_mcqs.  The returned string is given as its lines, each ended by  *)
(* "\n" in the string, and each line as the pieces the f-string joins.     *)

AsciiFrom97 ==
    <<"a", "b", "c", "d", "e", "f", "g", "h", "i", "j", "k", "l", "m", "n",
      "o", "p", "q", "r", "s", "t", "u", "v", "w", "x", "y", "z", "{", "|", "}", "~">>

\* chr(n) for 97 <= n <= 126
Chr(n) == AsciiFrom97[n - 96]

Digits == <<"0", "1", "2", "3", "4", "5", "6", "7", "8", "9">>

\* str(i) for i >= 0, as its digits
RECURSIVE Decimal(_)
Decimal(i) ==
    IF i < 10 THEN <<Digits[i + 1]>>
    ELSE Decimal(i \div 10) \o <<Digits[(i % 10) + 1]>>

\* The options are lettered from the second letter.
OptionLetterFromB(j) == Chr(97 + j)

OptionLetter(j) == Chr(96 + j)

FormatBlock(i, mcq) ==
    << Decimal(i) \o <<".", " ", mcq.question>> >>
    \o [j \in DOMAIN mcq.options |->
            <<"   ", OptionLetter(j), ")", " ", mcq.options[j]>>]
    \o << <<"   ", "Answer:", " ", mcq.correct_answer>>, <<>> >>

RECURSIVE FormatFrom(_, _)
FormatFrom(i, rest) ==
    IF rest = <<>> THEN <<>>
    ELSE FormatBlock(i, Head(rest)) \o FormatFrom(i + 1, Tail(rest))

format_mcqs(questions) == FormatFrom(1, questions)

----------------------------------------------------------------------------
(* The Streamlit script and generate_mcqs_from_data.                       *)

MinValue == 1
MaxValue == 10

Difficulties == {"Easy", "Medium", "Hard"}

CallArgs(source, source_type, num, learning_objective, difficulty_level, prompt_template) ==
    [source |-> source, source_type |-> source_type, num |-> num,
     learning_objective |-> learning_objective,
     difficulty_level |-> difficulty_level, prompt_template |-> prompt_template]

\* num is left to its default.
UiCallArgsDefaultNum(source, source_type, num_mcqs, difficulty_level) ==
    CallArgs(source, source_type, 1, "", difficulty_level, <<>>)

\* The arguments main passes to generate_mcqs_from_data in its pdf and text
\* branches; the parameters it does not name take their defaults.
UiCallArgs(source, source_type, num_mcqs, difficulty_level) ==
    CallArgs(source, source_type, num_mcqs, "", difficulty_level, <<>>)

\* The load-and-generate sequence runs on every rerun with a source.
ShouldGenerateNoButton(source, pressed) == source.supplied

\* The source test (uploaded_file is not None, or a non-empty url) and st.button.
ShouldGenerate(source, pressed) == source.supplied /\ pressed

\* An unknown source type is read as text.
SelectLoaderFallback(source_type) ==
    CASE source_type = "pdf" -> "PdfFileLoader"
      [] source_type = "url" -> "UrlLoader"
      [] OTHER -> "TextFileLoader"

\* The loader generate_mcqs_from_data constructs, "" where it raises.
SelectLoader(source_type) ==
    CASE source_type = "pdf" -> "PdfFileLoader"
      [] source_type = "text" -> "TextFileLoader"
      [] source_type = "url" -> "UrlLoader"
      [] OTHER -> ""

Idle == pc \in {"idle", "done", "fault"}

\* A new interaction starts: nothing of the last one is kept but, for the
\* record, the document it loaded.
Fresh ==
    /\ trace' = <<>>
    /\ doc' = <<>>
    /\ engineLog' = <<>>
    /\ mcqs' = <<>>
    /\ displayed' = <<>>
    /\ prevLoad' = IF doc # <<>> THEN <<[loader |-> trace[1], doc |-> doc[1]]>>
                   ELSE prevLoad

NoUi ==
    [active |-> FALSE, source_type |-> "", num_mcqs |-> 0, difficulty_level |-> "",
     source |-> NoSource, pressed |-> FALSE]

\* One run of main: the widgets are read and, with a source supplied and the
\* button pressed, the branch of the selected source type makes its call.  The
\* url branch names learning_objective, which main never binds.
UiRerun ==
    /\ Idle
    /\ \E source_type \in SourceTypes, num_mcqs \in MinValue..MaxValue,
          difficulty_level \in Difficulties, pressed \in BOOLEAN :
          \E source \in SourcesOf(source_type) \cup {NoSource} :
             /\ ui' = [active |-> TRUE, source_type |-> source_type,
                       num_mcqs |-> num_mcqs, difficulty_level |-> difficulty_level,
                       source |-> source, pressed |-> pressed]
             /\ Fresh
             /\ IF ~ShouldGenerate(source, pressed)
                THEN pc' = "done" /\ fault' = "" /\ call' = <<>>
                ELSE IF source_type = "url"
                THEN pc' = "fault" /\ fault' = "NameError" /\ call' = <<>>
                ELSE /\ pc' = "load"
                     /\ fault' = ""
                     /\ call' = <<UiCallArgs(source, source_type, num_mcqs,
                                             difficulty_level)>>
    /\ UNCHANGED <<normVars, fmtVars>>

ApiSourceTypes == SourceTypes \cup {"docx"}
ApiNums == {0, 3}
ApiDifficulties == {"", "Hard"}
ApiTemplates == {<<>>, <<CustomTemplate>>}

\* generate_mcqs_from_data called by other code than main.
ApiCall ==
    /\ Idle
    /\ \E source_type \in ApiSourceTypes, num \in ApiNums,
          difficulty_level \in ApiDifficulties, prompt_template \in ApiTemplates :
          \E source \in SourcesOf(source_type) :
             call' = <<CallArgs(source, source_type, num, "", difficulty_level,
                                prompt_template)>>
    /\ ui' = NoUi
    /\ Fresh
    /\ pc' = "load"
    /\ fault' = ""
    /\ UNCHANGED <<normVars, fmtVars>>

\* generate_mcqs_from_data up to the read of data['content'].
Load ==
    /\ pc = "load"
    /\ LET loader == SelectLoader(call[1].source_type)
       IN  IF loader = ""
           THEN /\ pc' = "fault"
                /\ fault' = "ValueError"
                /\ UNCHANGED <<trace, doc>>
           ELSE /\ trace' = Append(trace, LoadEvent(loader))
                /\ IF call[1].source.ok
                   THEN /\ doc' = <<load_data(loader, call[1].source)>>
                        /\ pc' = "generate"
                        /\ UNCHANGED fault
                   ELSE /\ pc' = "fault"
                        /\ fault' = LoadError(loader)
                        /\ UNCHANGED doc
    /\ UNCHANGED <<ui, call, engineLog, mcqs, displayed, prevLoad, normVars, fmtVars>>

\* generate_mcq: the one call of the engine, whose result is returned as it is.
Generate ==
    /\ pc = "generate"
    /\ \E outcome \in EngineOutcomes :
          /\ engineLog' = Append(engineLog,
                [request |-> generate_mcq_request(doc[1].content, call[1].num,
                                 call[1].difficulty_level, call[1].prompt_template),
                 ok |-> outcome.ok, result |-> outcome.result])
          /\ IF outcome.ok
             THEN /\ mcqs' = <<outcome.result>>
                  /\ pc' = IF ui.active THEN "render" ELSE "done"
                  /\ UNCHANGED fault
             ELSE /\ pc' = "fault"
                  /\ fault' = "EngineError"
                  /\ UNCHANGED mcqs
    /\ trace' = Append(trace, "qna_engine.generate_mcq")
    /\ UNCHANGED <<ui, call, doc, displayed, prevLoad, normVars, fmtVars>>

\* main: format_mcqs(mcqs.questions), then st.text.
Render ==
    /\ pc = "render"
    /\ displayed' = Append(displayed, format_mcqs(mcqs[1].questions))
    /\ trace' = Append(trace, "st.text")
    /\ pc' = "done"
    /\ UNCHANGED <<ui, call, doc, engineLog, mcqs, fault, prevLoad, normVars, fmtVars>>

Init ==
    /\ InitMainIdle
    /\ InitNormIdle
    /\ InitFmtIdle

Next == UiRerun \/ ApiCall \/ Load \/ Generate \/ Render

Spec == Init /\ [][Next]_vars

----------------------------------------------------------------------------
(* Properties of the interactions.                                         *)

Ended == pc \in {"done", "fault"}

EngineEvent == "qna_engine.generate_mcq"

\* C1: a call of generate_mcqs_from_data with a source type other than pdf,
\* text and url ends in ValueError, and at no point of it has a loader been
\* invoked, a document been read or the engine been called.
C1_UnsupportedTypeRaises ==
    (call # <<>> /\ call[1].source_type \notin {"pdf", "text", "url"}) =>
        /\ pc \in {"load", "fault"}
        /\ pc = "fault" => fault = "ValueError"
        /\ trace = <<>>
        /\ doc = <<>>
        /\ engineLog = <<>>
        /\ mcqs = <<>>

\* A call with source type docx has raised ValueError.
C1_Witness ==
    /\ call # <<>>
    /\ call[1].source_type = "docx"
    /\ pc = "fault"
    /\ fault = "ValueError"

\* C2: a script run of any of the three source types, with a source supplied
\* and the button pressed, whose loader and engine did not fail, ends having
\* called the loader of that type, then the engine with that loader's content,
\* and then st.text with the formatted questions.
C2_EveryBranchRenders ==
    (/\ ui.active
     /\ ui.source.supplied
     /\ ui.pressed
     /\ Ended
     /\ fault \notin LoaderErrors \cup {"EngineError"}) =>
        /\ trace = <<LoadEvent(SelectLoader(ui.source_type)), EngineEvent, "st.text">>
        /\ doc # <<>>
        /\ Len(engineLog) = 1
        /\ engineLog[1].request.topic = doc[1].content
        /\ displayed = <<format_mcqs(engineLog[1].result.questions)>>

\* C3: the content the PDF loader returns is the normalizer applied to the
\* concatenation of the page texts, and is itself in normal form.
C3_PdfContentNormalized ==
    (doc # <<>> /\ trace[1] = "PdfFileLoader.load_data") =>
        /\ doc[1].content = Pdf_clean_string(Concat(call[1].source.pages))
        /\ Pdf_clean_string(doc[1].content) = doc[1].content

\* C6: the identifier of every returned record is the digest of the content
\* of that record, and two loads, by whichever loaders, return the same
\* identifier exactly when they return the same content.
C6_ContentAddressed ==
    /\ doc # <<>> => doc[1].doc_id = Sha256Hex(Utf8Encode(doc[1].content))
    /\ prevLoad # <<>> =>
          prevLoad[1].doc.doc_id = Sha256Hex(Utf8Encode(prevLoad[1].doc.content))
    /\ (doc # <<>> /\ prevLoad # <<>>) =>
          (doc[1].content = prevLoad[1].doc.content
              <=> doc[1].doc_id = prevLoad[1].doc.doc_id)

\* Two different loaders have returned the same content, one after the other.
C6_Witness ==
    /\ doc # <<>>
    /\ prevLoad # <<>>
    /\ prevLoad[1].loader # trace[1]
    /\ doc[1].content = prevLoad[1].doc.content
    /\ doc[1].doc_id = prevLoad[1].doc.doc_id

\* C7: every request the engine receives from a script run carries as num an
\* integer from 1 to 10, the one selected in the count control.
C7_CountInRange ==
    ui.active =>
        \A k \in DOMAIN engineLog :
            /\ engineLog[k].request.num \in 1..10
            /\ engineLog[k].request.num = ui.num_mcqs

\* A script run has asked the engine for ten questions.
C7_Witness ==
    /\ ui.active
    /\ Len(engineLog) = 1
    /\ ui.num_mcqs = 10
    /\ engineLog[1].request.num = 10

\* C8: generate_mcq calls the engine once, with the loader's content as topic,
\* the caller's num and difficulty_level, and as prompt_template the caller's
\* template, or the default one exactly when the caller gave none; what it
\* returns is what the engine returned.
C8_AdapterPassThrough ==
    /\ Len(engineLog) <= 1
    /\ (mcqs # <<>> \/ fault = "EngineError") => Len(engineLog) = 1
    /\ \A k \in DOMAIN engineLog :
          /\ DOMAIN engineLog[k].request
                = {"topic", "num", "difficulty_level", "prompt_template"}
          /\ engineLog[k].request.topic = doc[1].content
          /\ engineLog[k].request.num = call[1].num
          /\ engineLog[k].request.difficulty_level = call[1].difficulty_level
          /\ engineLog[k].request.prompt_template = DefaultTemplate
                <=> call[1].prompt_template = <<>>
          /\ call[1].prompt_template # <<>> =>
                engineLog[k].request.prompt_template = call[1].prompt_template[1]
    /\ mcqs # <<>> => (engineLog[1].ok /\ mcqs[1] = engineLog[1].result)

\* A call with a template of the caller's has returned the engine's two questions.
C8_Witness ==
    /\ mcqs # <<>>
    /\ Len(mcqs[1].questions) = 2
    /\ call[1].prompt_template = <<CustomTemplate>>
    /\ engineLog[1].request.prompt_template = CustomTemplate

\* C10: an interaction loads, then generates, then renders; a loader failure
\* ends it with that failure, the engine not called and nothing shown; an
\* engine failure ends it with that failure and nothing shown; and a script
\* run without a source or without the button pressed loads nothing and calls
\* nothing.
C10_OrderAndPropagation ==
    /\ \E n \in 0..3 :
          /\ Len(trace) = n
          /\ n >= 1 => trace[1] \in LoadEvents
          /\ n >= 2 => trace[2] = EngineEvent
          /\ n >= 3 => trace[3] = "st.text"
    /\ (trace # <<>> /\ doc = <<>>) =>
          /\ pc = "fault"
          /\ fault \in LoaderErrors
          /\ call[1].source.ok = FALSE
          /\ Len(trace) = 1
          /\ engineLog = <<>>
          /\ displayed = <<>>
    /\ (engineLog # <<>> /\ ~engineLog[1].ok) =>
          /\ pc = "fault"
          /\ fault = "EngineError"
          /\ displayed = <<>>
          /\ mcqs = <<>>
    /\ fault # "" <=> pc = "fault"
    /\ displayed # <<>> => (mcqs # <<>> /\ doc # <<>>)
    /\ (ui.active /\ ~(ui.source.supplied /\ ui.pressed)) =>
          /\ trace = <<>>
          /\ engineLog = <<>>
          /\ pc = "done"

\* A text upload that is not valid UTF-8 has ended the interaction at the loader.
C10_Witness ==
    /\ ui.active
    /\ pc = "fault"
    /\ fault = "UnicodeDecodeError"
    /\ trace = <<"TextFileLoader.load_data">>
    /\ engineLog = <<>>

----------------------------------------------------------------------------
(* format_mcqs on its own: every bounded sequence of questions.            *)

QuestionTexts == {"Q1", "Q2"}
OptionTexts == {"x", "y"}

Questions ==
    {MCQ(q, o, c) : q \in QuestionTexts, o \in SeqsUpTo(OptionTexts, MaxOptions),
                    c \in OptionTexts}

InitFormat ==
    /\ InitMainIdle
    /\ InitNormIdle
    /\ fQuestions \in SeqsUpTo(Questions, MaxQuestions)
    /\ fOut = <<>>

Format ==
    /\ fOut = <<>>
    /\ fOut' = <<format_mcqs(fQuestions)>>
    /\ UNCHANGED <<fQuestions, mainVars, normVars>>

NextFormat == Format

SpecFormat == InitFormat /\ [][NextFormat]_vars

RECURSIVE LinesBefore(_, _)
LinesBefore(questions, i) ==
    IF i = 1 THEN 0
    ELSE LinesBefore(questions, i - 1) + Len(questions[i - 1].options) + 3

\* C9: the output has one block per question, in input order: a line with the
\* question's number (from 1) and text, one line per option in option order
\* lettered a), b), c), ..., a line Answer: with the correct answer, and the
\* empty line that ends the block; no other lines, and none for no questions.
C9_BlocksInOrder ==
    fOut # <<>> =>
        LET out == fOut[1]
            n == Len(fQuestions)
            letters == <<"a", "b", "c", "d", "e", "f">>
            numbers == <<"1", "2", "3", "4", "5", "6">>
        IN  /\ Len(out) = LinesBefore(fQuestions, n + 1)
            /\ n = 0 => out = <<>>
            /\ Cardinality({l \in DOMAIN out : Len(out[l]) >= 2 /\ out[l][2] = "Answer:"}) = n
            /\ \A i \in 1..n :
                  LET at == LinesBefore(fQuestions, i)
                      m == Len(fQuestions[i].options)
                  IN  /\ out[at + 1] = <<numbers[i], ".", " ", fQuestions[i].question>>
                      /\ \A j \in 1..m :
                            out[at + 1 + j]
                               = <<"   ", letters[j], ")", " ", fQuestions[i].options[j]>>
                      /\ out[at + m + 2]
                            = <<"   ", "Answer:", " ", fQuestions[i].correct_answer>>
                      /\ out[at + m + 3] = <<>>

\* Two different questions with two options each have been formatted.
C9_Witness ==
    /\ fOut # <<>>
    /\ Len(fQuestions) = 2
    /\ fQuestions[1] # fQuestions[2]
    /\ Len(fQuestions[1].options) = 2
    /\ fOut[1][3] = <<"   ", "b", ")", " ", fQuestions[1].options[2]>>
    /\ fOut[1][6] = <<"2", ".", " ", fQuestions[2].question>>

====
